---- MODULE Spec2Model ----
(***************************************************************************)
(* BlockWithAlignableContents (lexical-react): a wrapper component that    *)
(* registers a FORMAT_ELEMENT_COMMAND handler and a CLICK_COMMAND handler  *)
(* on the editor, closed over the isSelected value of the render that      *)
(* registered them.  The editor side (selection, command dispatch, node    *)
(* versions) is modelled as far as the handlers use it.                    *)
(***************************************************************************)
EXTENDS Integers, Sequences, FiniteSets, TLC

VARIABLES selection, format, mounted, isSelected, commands, dispatch, lastRun,
          prevNodeMap, pendingNodeMap, cloneNotNeeded, foo, keyOf, nObj, lastSet

editorVars == <<selection, format, mounted, isSelected, commands, dispatch, lastRun>>
nodeVars == <<prevNodeMap, pendingNodeMap, cloneNotNeeded, foo, keyOf, nObj, lastSet>>
vars == <<selection, format, mounted, isSelected, commands, dispatch, lastRun,
          prevNodeMap, pendingNodeMap, cloneNotNeeded, foo, keyOf, nObj, lastSet>>

----------------------------------------------------------------------------
(* Bounds *)

\* longest list selection.getNodes() returns for a range selection
MaxRangeLen == 2
\* number of node versions (objects) ever allocated in the node-version model
MaxObj == 5

----------------------------------------------------------------------------
(* The document *)

NoNode == "null"
Root == "root"
\* document order of the nodes below the root
DocOrder == <<"p1", "t1", "d1", "i1", "d2">>
Nodes == {DocOrder[i] : i \in 1..Len(DocOrder)}

NodeType == [n \in Nodes \cup {Root} |->
               CASE n = Root -> "root"
                 [] n = "p1" -> "paragraph"
                 [] n = "t1" -> "text"
                 [] n = "i1" -> "decorator"
                 [] OTHER -> "decorator-block"]

Parent == [n \in Nodes |-> IF n = "t1" THEN "p1" ELSE Root]

ElementFormatType == {"left", "center"}
Formats == ElementFormatType \cup {""}

getNodeByKey(key) == IF key \in Nodes THEN key ELSE NoNode

isDecoratorBlockNode(node) == node \in Nodes /\ NodeType[node] = "decorator-block"

isElementNode(node) == node \in Nodes \cup {Root} /\ NodeType[node] \in {"root", "paragraph"}

\* $findMatchingParent starts at the node itself and stops before the root
RECURSIVE findBlockElement(_)
findBlockElement(node) ==
  IF node = Root \/ node = NoNode THEN NoNode
  ELSE IF isElementNode(node) THEN node
  ELSE findBlockElement(Parent[node])

\* NoNode stands for the invariant failure (the throw)
getNearestBlockElementAncestorOrThrow(node) == findBlockElement(node)

----------------------------------------------------------------------------
(* Selections *)

NullSelection == [kind |-> "null", keys |-> {}, nodes |-> <<>>]
NodeSelection(keys) == [kind |-> "node", keys |-> keys, nodes |-> <<>>]
RangeSelection(nodes) == [kind |-> "range", keys |-> {}, nodes |-> nodes]

isNodeSelection(sel) == sel.kind = "node"
isRangeSelection(sel) == sel.kind = "range"

\* keys of the nodes selection.getNodes() returns
GetNodeKeys(sel) ==
  CASE sel.kind = "node" -> sel.keys
    [] sel.kind = "range" -> {sel.nodes[i] : i \in 1..Len(sel.nodes)}
    [] OTHER -> {}

\* the keys a wrapper can be rendered for
WrapperKeys == {"d1", "d2", "i1"}

\* getNodes() of a range selection: a run of consecutive nodes in document order
RangeNodeLists ==
  {SubSeq(DocOrder, i, j) : i \in 1..Len(DocOrder),
                            j \in 0..Len(DocOrder)} \cap
  UNION {[1..n -> Nodes] : n \in 0..MaxRangeLen}

Selections ==
  {NullSelection} \cup {NodeSelection(ks) : ks \in SUBSET WrapperKeys}
                  \cup {RangeSelection(ns) : ns \in RangeNodeLists}

\* isNodeSelected of useLexicalNodeSelection
isNodeSelected(key, sel) == getNodeByKey(key) # NoNode /\ key \in GetNodeKeys(sel)

\* clearSelection of useLexicalNodeSelection
clearSelection(sel) == IF isNodeSelection(sel) THEN NodeSelection({}) ELSE sel

\* setSelected of useLexicalNodeSelection
setSelected(sel, key, selected) ==
  LET base == IF isNodeSelection(sel) THEN sel ELSE NodeSelection({})
  IN IF selected THEN NodeSelection(base.keys \cup {key})
     ELSE NodeSelection(base.keys \ {key})

----------------------------------------------------------------------------
(* Commands *)

FORMAT_ELEMENT_COMMAND == "FORMAT_ELEMENT_COMMAND"
CLICK_COMMAND == "CLICK_COMMAND"
CommandTypes == {FORMAT_ELEMENT_COMMAND, CLICK_COMMAND}
COMMAND_PRIORITY_LOW == 1
Priorities == 0..4

Handler(w, sel) == [owner |-> w, isSelected |-> sel, priority |-> COMMAND_PRIORITY_LOW]

\* the cleanup mergeRegister returns: removes both handlers of the instance
Unregister(cmds, w) ==
  [c \in CommandTypes |-> SelectSeq(cmds[c], LAMBDA h : h.owner # w)]

\* editor.registerCommand for both command types
Register(cmds, w, sel) ==
  [c \in CommandTypes |-> Append(cmds[c], Handler(w, sel))]

UseEffectNoCleanup(cmds, w, sel) == Register(cmds, w, sel)

\* the effect of lines 53-105: cleanup of the previous run, then registration
UseEffect(cmds, w, sel) == Register(Unregister(cmds, w), w, sel)

\* listeners of a command type in the order dispatch calls them
RECURSIVE ListenersFrom(_, _)
ListenersFrom(hs, p) ==
  IF p < 0 THEN <<>>
  ELSE SelectSeq(hs, LAMBDA h : h.priority = p) \o ListenersFrom(hs, p - 1)

ListenersInPriorityOrder(c) == ListenersFrom(commands[c], 4)

----------------------------------------------------------------------------
(* The two command handlers (lines 55-103) *)

\* the loop of lines 70-77 over selection.getNodes(); it stops at the throw
FormatNodesFirstOnly(nodes, fmt, formatType) ==
  IF nodes = <<>> THEN [format |-> fmt, threw |-> FALSE, calls |-> {}]
  ELSE LET node == Head(nodes)
       IN IF isDecoratorBlockNode(node)
          THEN [format |-> [fmt EXCEPT ![node] = formatType], threw |-> FALSE,
                calls |-> {"setFormat"}]
          ELSE LET element == getNearestBlockElementAncestorOrThrow(node)
               IN IF element = NoNode
                  THEN [format |-> fmt, threw |-> TRUE, calls |-> {}]
                  ELSE [format |-> [fmt EXCEPT ![element] = formatType],
                        threw |-> FALSE, calls |-> {"setFormat"}]

RECURSIVE FormatNodes(_, _, _)
FormatNodes(nodes, fmt, formatType) ==
  IF nodes = <<>> THEN [format |-> fmt, threw |-> FALSE, calls |-> {}]
  ELSE LET node == Head(nodes)
       IN IF isDecoratorBlockNode(node)
          THEN LET r == FormatNodes(Tail(nodes), [fmt EXCEPT ![node] = formatType],
                                    formatType)
               IN [r EXCEPT !.calls = @ \cup {"setFormat"}]
          ELSE LET element == getNearestBlockElementAncestorOrThrow(node)
               IN IF element = NoNode
                  THEN [format |-> fmt, threw |-> TRUE, calls |-> {}]
                  ELSE LET r == FormatNodes(Tail(nodes),
                                            [fmt EXCEPT ![element] = formatType],
                                            formatType)
                       IN [r EXCEPT !.calls = @ \cup {"setFormat"}]

\* the body of the handler under `if (isSelected)` (lines 59-80)
FormatSelected(h, formatType, sel, fmt) ==
  IF isNodeSelection(sel)
  THEN LET node == getNodeByKey(h.owner)
       IN IF isDecoratorBlockNode(node)
          THEN [ret |-> "true", format |-> [fmt EXCEPT ![node] = formatType],
                calls |-> {"setFormat"}]
          ELSE [ret |-> "true", format |-> fmt, calls |-> {}]
  ELSE IF isRangeSelection(sel)
  THEN LET r == FormatNodes(sel.nodes, fmt, formatType)
       IN [ret |-> IF r.threw THEN "threw" ELSE "true", format |-> r.format,
           calls |-> r.calls]
  ELSE [ret |-> "true", format |-> fmt, calls |-> {}]

FormatElementHandlerIgnoresIsSelected(h, formatType, sel, fmt) ==
  FormatSelected(h, formatType, sel, fmt)

FormatElementHandlerWholeNodeSelection(h, formatType, sel, fmt) ==
  IF h.isSelected /\ isNodeSelection(sel)
  THEN [ret |-> "true",
        format |-> [n \in Nodes |-> IF n \in sel.keys /\ isDecoratorBlockNode(n)
                                    THEN formatType ELSE fmt[n]],
        calls |-> {"setFormat"}]
  ELSE IF h.isSelected THEN FormatSelected(h, formatType, sel, fmt)
  ELSE [ret |-> "false", format |-> fmt, calls |-> {}]

FormatElementHandlerTrueOnlyIfFormatted(h, formatType, sel, fmt) ==
  IF h.isSelected
  THEN LET r == FormatSelected(h, formatType, sel, fmt)
       IN IF r.ret = "true" /\ r.calls = {} THEN [r EXCEPT !.ret = "false"] ELSE r
  ELSE [ret |-> "false", format |-> fmt, calls |-> {}]

\* the FORMAT_ELEMENT_COMMAND handler (lines 57-84)
FormatElementHandler(h, formatType, sel, fmt) ==
  IF h.isSelected
  THEN FormatSelected(h, formatType, sel, fmt)
  ELSE [ret |-> "false", format |-> fmt, calls |-> {}]

ClickHandlerNoToggle(h, event, sel) ==
  IF event.target = h.owner
  THEN LET s1 == IF ~event.shiftKey THEN clearSelection(sel) ELSE sel
       IN [ret |-> "true", selection |-> setSelected(s1, h.owner, h.isSelected),
           calls |-> {"preventDefault", "setSelected"}
                     \cup IF ~event.shiftKey THEN {"clearSelection"} ELSE {}]
  ELSE [ret |-> "false", selection |-> sel, calls |-> {}]

\* the CLICK_COMMAND handler (lines 89-101); ref.current of a mounted instance
\* is its own div, named by the instance's nodeKey.  The updates clearSelection
\* and setSelected queue run, in that order, when the handler has returned.
ClickHandler(h, event, sel) ==
  IF event.target = h.owner
  THEN LET s1 == IF ~event.shiftKey THEN clearSelection(sel) ELSE sel
       IN [ret |-> "true", selection |-> setSelected(s1, h.owner, ~h.isSelected),
           calls |-> {"preventDefault", "setSelected"}
                     \cup IF ~event.shiftKey THEN {"clearSelection"} ELSE {}]
  ELSE [ret |-> "false", selection |-> sel, calls |-> {}]

----------------------------------------------------------------------------
(* The editor and the component lifecycle *)

Idle == [status |-> "idle", cmd |-> "none", payload |-> "",
         target |-> "none", shiftKey |-> FALSE, idx |-> 0]
NoRun == [owner |-> "none", cmd |-> "none", isSelected |-> FALSE,
          ret |-> "none", calls |-> {}]

Running == dispatch.status = "running"

\* first render of an instance for nodeKey w and its first effect run
Mount(w) ==
  /\ ~Running
  /\ ~mounted[w]
  /\ mounted' = [mounted EXCEPT ![w] = TRUE]
  /\ isSelected' = [isSelected EXCEPT ![w] = isNodeSelected(w, selection)]
  /\ commands' = UseEffect(commands, w, isNodeSelected(w, selection))
  /\ dispatch' = Idle /\ lastRun' = NoRun
  /\ UNCHANGED <<selection, format>>

\* re-render after the update listener changed the hook's state: isSelected is
\* a dependency of the effect, so the effect runs again
Rerender(w) ==
  /\ ~Running
  /\ mounted[w]
  /\ isSelected[w] # isNodeSelected(w, selection)
  /\ isSelected' = [isSelected EXCEPT ![w] = isNodeSelected(w, selection)]
  /\ commands' = UseEffect(commands, w, isNodeSelected(w, selection))
  /\ dispatch' = Idle /\ lastRun' = NoRun
  /\ UNCHANGED <<selection, format, mounted>>

\* unmount: the effect's cleanup runs
Unmount(w) ==
  /\ ~Running
  /\ mounted[w]
  /\ mounted' = [mounted EXCEPT ![w] = FALSE]
  /\ isSelected' = [isSelected EXCEPT ![w] = FALSE]
  /\ commands' = Unregister(commands, w)
  /\ dispatch' = Idle /\ lastRun' = NoRun
  /\ UNCHANGED <<selection, format>>

\* an update of the editor from elsewhere replaces the selection
SetSelection(sel) ==
  /\ ~Running
  /\ sel # selection
  /\ selection' = sel
  /\ dispatch' = Idle /\ lastRun' = NoRun
  /\ UNCHANGED <<format, mounted, isSelected, commands>>

\* editor.dispatchCommand(FORMAT_ELEMENT_COMMAND, formatType)
DispatchFormat(formatType) ==
  /\ ~Running
  /\ dispatch' = [status |-> IF ListenersInPriorityOrder(FORMAT_ELEMENT_COMMAND) = <<>>
                             THEN "unhandled" ELSE "running",
                  cmd |-> FORMAT_ELEMENT_COMMAND, payload |-> formatType,
                  target |-> "none", shiftKey |-> FALSE, idx |-> 1]
  /\ lastRun' = NoRun
  /\ UNCHANGED <<selection, format, mounted, isSelected, commands>>

\* editor.dispatchCommand(CLICK_COMMAND, event)
DispatchClick(target, shiftKey) ==
  /\ ~Running
  /\ target = "other" \/ (target \in WrapperKeys /\ mounted[target])
  /\ dispatch' = [status |-> IF ListenersInPriorityOrder(CLICK_COMMAND) = <<>>
                             THEN "unhandled" ELSE "running",
                  cmd |-> CLICK_COMMAND, payload |-> "",
                  target |-> target, shiftKey |-> shiftKey, idx |-> 1]
  /\ lastRun' = NoRun
  /\ UNCHANGED <<selection, format, mounted, isSelected, commands>>

CurrentListeners == ListenersInPriorityOrder(dispatch.cmd)
CurrentHandler == CurrentListeners[dispatch.idx]

\* status of the dispatch after a listener returned ret
AfterListener(ret) ==
  [dispatch EXCEPT
     !.status = CASE ret = "true" -> "handled"
                  [] ret = "threw" -> "threw"
                  [] dispatch.idx = Len(CurrentListeners) -> "unhandled"
                  [] OTHER -> "running",
     !.idx = IF ret = "false" /\ dispatch.idx < Len(CurrentListeners)
             THEN dispatch.idx + 1 ELSE dispatch.idx]

\* triggerCommandListeners calls the next listener of a FORMAT_ELEMENT_COMMAND
RunFormatListener ==
  /\ Running
  /\ dispatch.cmd = FORMAT_ELEMENT_COMMAND
  /\ LET h == CurrentHandler
         r == FormatElementHandler(h, dispatch.payload, selection, format)
     IN /\ format' = r.format
        /\ lastRun' = [owner |-> h.owner, cmd |-> FORMAT_ELEMENT_COMMAND,
                       isSelected |-> h.isSelected, ret |-> r.ret, calls |-> r.calls]
        /\ dispatch' = AfterListener(r.ret)
  /\ UNCHANGED <<selection, mounted, isSelected, commands>>

\* triggerCommandListeners calls the next listener of a CLICK_COMMAND
RunClickListener ==
  /\ Running
  /\ dispatch.cmd = CLICK_COMMAND
  /\ LET h == CurrentHandler
         r == ClickHandler(h, dispatch, selection)
     IN /\ selection' = r.selection
        /\ lastRun' = [owner |-> h.owner, cmd |-> CLICK_COMMAND,
                       isSelected |-> h.isSelected, ret |-> r.ret, calls |-> r.calls]
        /\ dispatch' = AfterListener(r.ret)
  /\ UNCHANGED <<format, mounted, isSelected, commands>>

EditorInit ==
  /\ selection = NullSelection
  /\ format = [n \in Nodes |-> ""]
  /\ mounted = [w \in WrapperKeys |-> FALSE]
  /\ isSelected = [w \in WrapperKeys |-> FALSE]
  /\ commands = [c \in CommandTypes |-> <<>>]
  /\ dispatch = Idle
  /\ lastRun = NoRun

----------------------------------------------------------------------------
(* Node versions: the getFoo / setFoo accessors of a custom node (lines 229-243) *)

CustomKeys == {"k1", "k2"}
FooValues == {"", "x", "y"}
Objects == 1..MaxObj
NoKey == "none"
Unwritten == "unwritten"

Allocated == {o \in Objects : o <= nObj}

\* this.getLatest(): the version of the node in the active editor state
getLatest(this) == pendingNodeMap[keyOf[this]]

\* this.getWritable(): the latest version if this update already cloned the
\* node, else a clone of the latest version put in the pending editor state
getWritable(this) ==
  LET key == keyOf[this]
      latest == getLatest(this)
  IN IF key \in cloneNotNeeded
     THEN [self |-> latest, foo |-> foo, keyOf |-> keyOf,
           pendingNodeMap |-> pendingNodeMap, cloneNotNeeded |-> cloneNotNeeded,
           nObj |-> nObj]
     ELSE LET mutableNode == nObj + 1
          IN [self |-> mutableNode,
              foo |-> [foo EXCEPT ![mutableNode] = foo[latest]],
              keyOf |-> [keyOf EXCEPT ![mutableNode] = key],
              pendingNodeMap |-> [pendingNodeMap EXCEPT ![key] = mutableNode],
              cloneNotNeeded |-> cloneNotNeeded \cup {key},
              nObj |-> nObj + 1]

setFooOnThis(this, value) ==
  [self |-> this, foo |-> [foo EXCEPT ![this] = value], keyOf |-> keyOf,
   pendingNodeMap |-> pendingNodeMap, cloneNotNeeded |-> cloneNotNeeded,
   nObj |-> nObj]

\* setFoo (lines 229-236)
setFoo(this, value) ==
  LET w == getWritable(this)
  IN [w EXCEPT !.foo = [w.foo EXCEPT ![w.self] = value]]

\* getFoo (lines 238-243)
getFoo(this) == foo[getLatest(this)]

\* a call of setFoo inside an update, on any reference the caller may hold
SetFoo(this, value) ==
  /\ this \in Allocated
  /\ keyOf[this] \in cloneNotNeeded \/ nObj < MaxObj
  /\ LET r == setFoo(this, value)
     IN /\ foo' = r.foo
        /\ keyOf' = r.keyOf
        /\ pendingNodeMap' = r.pendingNodeMap
        /\ cloneNotNeeded' = r.cloneNotNeeded
        /\ nObj' = r.nObj
  /\ lastSet' = [lastSet EXCEPT ![keyOf[this]] = value]
  /\ UNCHANGED prevNodeMap

\* the update commits: the pending editor state becomes the current one
Commit ==
  /\ cloneNotNeeded # {}
  /\ prevNodeMap' = pendingNodeMap
  /\ cloneNotNeeded' = {}
  /\ UNCHANGED <<pendingNodeMap, foo, keyOf, nObj, lastSet>>

NodeInit ==
  /\ prevNodeMap = [k \in CustomKeys |-> IF k = "k1" THEN 1 ELSE 2]
  /\ pendingNodeMap = [k \in CustomKeys |-> IF k = "k1" THEN 1 ELSE 2]
  /\ cloneNotNeeded = {}
  /\ foo = [o \in Objects |-> ""]
  /\ keyOf = [o \in Objects |-> CASE o = 1 -> "k1" [] o = 2 -> "k2" [] OTHER -> NoKey]
  /\ nObj = 2
  /\ lastSet = [k \in CustomKeys |-> Unwritten]

----------------------------------------------------------------------------
(* Specifications *)

Init == EditorInit /\ NodeInit

Next ==
  \/ \E w \in WrapperKeys : Mount(w) /\ UNCHANGED nodeVars
  \/ \E w \in WrapperKeys : Rerender(w) /\ UNCHANGED nodeVars
  \/ \E w \in WrapperKeys : Unmount(w) /\ UNCHANGED nodeVars
  \/ \E sel \in Selections : SetSelection(sel) /\ UNCHANGED nodeVars
  \/ \E f \in ElementFormatType : DispatchFormat(f) /\ UNCHANGED nodeVars
  \/ \E t \in WrapperKeys \cup {"other"}, sh \in BOOLEAN :
        DispatchClick(t, sh) /\ UNCHANGED nodeVars
  \/ RunFormatListener /\ UNCHANGED nodeVars
  \/ RunClickListener /\ UNCHANGED nodeVars

Spec == Init /\ [][Next]_vars

NodeNext ==
  \/ \E o \in Objects, v \in FooValues : SetFoo(o, v) /\ UNCHANGED editorVars
  \/ Commit /\ UNCHANGED editorVars

NodeSpec == Init /\ [][NodeNext]_vars

----------------------------------------------------------------------------
(* Properties *)

\* the handler the running dispatch calls in the next step
FormatRuns == Running /\ dispatch.cmd = FORMAT_ELEMENT_COMMAND
ClickRuns == Running /\ dispatch.cmd = CLICK_COMMAND

\* the keys held by a node selection (none for any other selection)
SelectedNodeKeys(sel) == IF isNodeSelection(sel) THEN sel.keys ELSE {}

\* C1: a FORMAT_ELEMENT_COMMAND handler run with isSelected false, and a
\* CLICK_COMMAND handler run with a target that is not its own div, return
\* false, call nothing, and leave the selection and every format unchanged.
C1_UnmatchedFallThrough ==
  [][((FormatRuns /\ ~CurrentHandler.isSelected)
      \/ (ClickRuns /\ dispatch.target # CurrentHandler.owner))
     => /\ lastRun'.owner = CurrentHandler.owner
        /\ lastRun'.ret = "false"
        /\ lastRun'.calls = {}
        /\ selection' = selection
        /\ format' = format]_vars

C1_Witness ==
  /\ lastRun.cmd = FORMAT_ELEMENT_COMMAND
  /\ lastRun.ret = "false"
  /\ ~lastRun.isSelected
  /\ selection # NullSelection
  /\ \E n \in Nodes : format[n] # ""

\* C2: a CLICK_COMMAND whose target is the wrapper's div returns true after
\* preventDefault, and leaves a node selection holding (the keys before if
\* shiftKey, else none) with nodeKey added when the handler's isSelected was
\* false and removed when it was true.
C2_ClickToggles ==
  [][(ClickRuns /\ dispatch.target = CurrentHandler.owner)
     => LET h == CurrentHandler
            base == IF dispatch.shiftKey THEN SelectedNodeKeys(selection) ELSE {}
        IN /\ lastRun'.ret = "true"
           /\ "preventDefault" \in lastRun'.calls
           /\ isNodeSelection(selection')
           /\ selection'.keys = IF h.isSelected THEN base \ {h.owner}
                                ELSE base \cup {h.owner}
           /\ format' = format]_vars

C2_Witness ==
  /\ lastRun.cmd = CLICK_COMMAND
  /\ lastRun.ret = "true"
  /\ dispatch.shiftKey
  /\ ~lastRun.isSelected
  /\ selection.keys = WrapperKeys

\* C3: a FORMAT_ELEMENT_COMMAND handler run with isSelected true under a node
\* selection sets the format of the node nodeKey if it is a decorator block
\* node, changes no other format, keeps the selection and returns true.
C3_NodeSelectionFormatsOwnNode ==
  [][(FormatRuns /\ CurrentHandler.isSelected /\ isNodeSelection(selection))
     => LET k == CurrentHandler.owner
        IN /\ lastRun'.ret = "true"
           /\ selection' = selection
           /\ format' = IF isDecoratorBlockNode(k)
                        THEN [format EXCEPT ![k] = dispatch.payload]
                        ELSE format]_vars

C3_Witness ==
  /\ lastRun.cmd = FORMAT_ELEMENT_COMMAND
  /\ lastRun.isSelected
  /\ lastRun.ret = "true"
  /\ isNodeSelection(selection)
  /\ format[lastRun.owner] = dispatch.payload
  /\ \E k \in selection.keys :
        k # lastRun.owner /\ isDecoratorBlockNode(k) /\ format[k] # dispatch.payload

HandlersOf(c, w) == {i \in DOMAIN commands[c] : commands[c][i].owner = w}

\* C4: every mounted instance has exactly one handler of each command type,
\* at COMMAND_PRIORITY_LOW and closed over the isSelected of its last render;
\* an unmounted instance has none.
C4_OneHandlerPairPerInstance ==
  \A c \in CommandTypes :
    /\ \A w \in WrapperKeys :
         Cardinality(HandlersOf(c, w)) = IF mounted[w] THEN 1 ELSE 0
    /\ \A i \in DOMAIN commands[c] :
         /\ commands[c][i].priority = COMMAND_PRIORITY_LOW
         /\ commands[c][i].isSelected = isSelected[commands[c][i].owner]

C4_Witness ==
  /\ \E w \in WrapperKeys : mounted[w] /\ isSelected[w] /\ ~isNodeSelected(w, selection)
  /\ \E w \in WrapperKeys : mounted[w] /\ ~isSelected[w]
  /\ \E w \in WrapperKeys : ~mounted[w] /\ format[w] # ""

\* the nodes the loop reformats for the first n nodes of the list
FormatTargets(nodes, n) ==
  {nodes[i] : i \in {j \in 1..n : isDecoratorBlockNode(nodes[j])}}
  \cup {getNearestBlockElementAncestorOrThrow(nodes[i]) :
          i \in {j \in 1..n : ~isDecoratorBlockNode(nodes[j])}}

\* the positions of the nodes the loop throws at
ThrowsAt(nodes) ==
  {i \in 1..Len(nodes) : /\ ~isDecoratorBlockNode(nodes[i])
                         /\ getNearestBlockElementAncestorOrThrow(nodes[i]) = NoNode}

Min(S) == CHOOSE x \in S : \A y \in S : x <= y

\* C7: a FORMAT_ELEMENT_COMMAND handler run with isSelected true under a range
\* selection gives formatType to every decorator block node of getNodes() and
\* to the nearest block element of every other node, changes nothing else and
\* returns true; if some node has no block element it throws, with exactly the
\* targets of the nodes before that one reformatted.
C7_RangeSelectionFormatsTargets ==
  [][(FormatRuns /\ CurrentHandler.isSelected /\ isRangeSelection(selection))
     => LET nodes == selection.nodes
            n == IF ThrowsAt(nodes) = {} THEN Len(nodes) ELSE Min(ThrowsAt(nodes)) - 1
        IN /\ lastRun'.ret = IF ThrowsAt(nodes) = {} THEN "true" ELSE "threw"
           /\ selection' = selection
           /\ \A m \in Nodes :
                format'[m] = IF m \in FormatTargets(nodes, n)
                             THEN dispatch.payload ELSE format[m]]_vars

C7_Witness ==
  /\ lastRun.cmd = FORMAT_ELEMENT_COMMAND
  /\ lastRun.isSelected
  /\ lastRun.ret = "true"
  /\ selection = RangeSelection(<<"t1", "d1">>)
  /\ format["p1"] = "center" /\ format["d1"] = "center"
  /\ format["d2"] = "left"

\* the case of C7 in which the handler throws part of the way through
C7_ThrowReached ==
  ~(lastRun.ret = "threw" /\ \E n \in Nodes : format[n] = dispatch.payload)

\* C8 as stated: the handler returns true only when it has set a format.
C8_TrueOnlyIfFormatted ==
  (lastRun.cmd = FORMAT_ELEMENT_COMMAND /\ lastRun.ret = "true")
    => "setFormat" \in lastRun.calls

\* C8: a FORMAT_ELEMENT_COMMAND handler that returns, returns true exactly when
\* its isSelected is true, whether or not it has set any format.
C8_TrueIffIsSelected ==
  (lastRun.cmd = FORMAT_ELEMENT_COMMAND /\ lastRun.ret # "threw")
    => (lastRun.ret = "true" <=> lastRun.isSelected)

C8_Witness ==
  /\ lastRun.cmd = FORMAT_ELEMENT_COMMAND
  /\ lastRun.ret = "true"
  /\ lastRun.calls = {}
  /\ isNodeSelected(lastRun.owner, selection)

\* C9: whenever a registered handler runs, the isSelected it closed over is
\* whether nodeKey is selected in the editor's current selection.
C9_ClosureIsCurrent ==
  Running => CurrentHandler.isSelected = isNodeSelected(CurrentHandler.owner, selection)

\* C10: once a FORMAT_ELEMENT_COMMAND dispatch is over, under a node selection
\* of two or more decorator block nodes that are each mounted and rendered as
\* selected, every one of them has the dispatched format.
C10_AllSelectedBlocksFormatted ==
  LET D == {k \in SelectedNodeKeys(selection) : isDecoratorBlockNode(k)}
  IN (/\ dispatch.cmd = FORMAT_ELEMENT_COMMAND
      /\ dispatch.status \in {"handled", "unhandled"}
      /\ Cardinality(D) >= 2
      /\ \A k \in D : mounted[k] /\ isSelected[k])
     => \A k \in D : format[k] = dispatch.payload

\* the versions of the node that no editor state holds any more
Stale == {o \in Allocated : \A k \in CustomKeys : prevNodeMap[k] # o /\ pendingNodeMap[k] # o}

\* C6: after setFoo(x) on any reference, getFoo() on every reference to the
\* node with that key returns x; and no step changes the __foo of a version
\* held by the previous editor state.
C6_AccessorsConsistent ==
  /\ [](\A o \in Allocated :
          lastSet[keyOf[o]] # Unwritten => getFoo(o) = lastSet[keyOf[o]])
  /\ [][\A k \in CustomKeys : foo'[prevNodeMap[k]] = foo[prevNodeMap[k]]]_vars

C6_Witness ==
  \E o \in Stale :
     LET k == keyOf[o]
     IN /\ lastSet[k] # Unwritten
        /\ foo[o] # lastSet[k]
        /\ prevNodeMap[k] # pendingNodeMap[k]
        /\ foo[prevNodeMap[k]] # foo[pendingNodeMap[k]]

====
